---- MODULE Spec2Model ----
(***************************************************************************)
(* A model of notox (src/src/lib.rs): the file-name sanitizer clean_name   *)
(* with its transliteration table check_similar, the rename engine         *)
(* clean_path, the tree walker clean_directory / Notox::run, and the       *)
(* command line parse_args.                                                *)
(*                                                                         *)
(* A path component is a sequence of bytes (0..255); a path is a sequence  *)
(* of components; a String is the sequence of the code points of its       *)
(* characters (every character the sanitizer pushes is ASCII).             *)
(***************************************************************************)
EXTENDS Integers, Sequences, FiniteSets, TLC

VARIABLES
    \* clean_name's loop (lib.rs 449-524)
    path,                 \* the component being sanitized, as_encoded_bytes()
    i,                    \* position of the next byte the for loop reads (1-based)
    new_name,             \* the String built so far
    vec_grapheme,         \* the 4-byte buffer of the pending multi-byte sequence
    last_was_underscore,  \* whether the last input was a collapse placeholder
    idx_grapheme,         \* number of bytes pending in vec_grapheme
    panicked,             \* an out-of-bounds store into vec_grapheme aborted the loop
    cn_pc,                \* "idle" | "loop" | "returned"
    \* the walker (lib.rs 527-635, 874-898)
    fs,                   \* the filesystem: path -> [kind, perm]
    dry_run,              \* NotoxArgs.dry_run
    rayon,                \* whether the build has the "rayon" feature
    paths_to_check,       \* the roots handed to Notox::run
    tasks,                \* the pending calls of the map closures, in traversal order
    results,              \* the PathChange values produced so far
    calls,                \* the std::fs::rename and std::fs::read_dir calls of the walk so far
    fs0,                  \* the filesystem as it was when run was called
    pc,                   \* "idle" | "parse" | "exit" | "start" | "running" | "done"
    \* parse_args (lib.rs 663-762)
    args,                 \* the argument list, args[1] being the program's name
    next_arg,             \* position in args of the next one_arg of the for loop
    output,               \* the Output chosen so far
    serde,                \* whether the build has the "serde" feature
    exit_code             \* the code of the Err parse_args returned, 0 when none

cn_vars == <<path, i, new_name, vec_grapheme, last_was_underscore, idx_grapheme,
             panicked, cn_pc>>
walk_vars == <<fs, dry_run, rayon, paths_to_check, tasks, results, calls, fs0, pc>>
pa_vars == <<args, next_arg, output, serde, exit_code>>
vars == <<cn_vars, walk_vars, pa_vars>>

-----------------------------------------------------------------------------
(* Bounds of the model.                                                     *)

\* the number of chunks (single bytes or multi-byte sequences) of a component
MaxChunks == 3
\* the number of entries of the filesystem below the working directory
MaxEntries == 3
\* the number of arguments after the program's name
MaxArgs == 2

-----------------------------------------------------------------------------
(* The sanitizer.                                                           *)

\* push_underscore_if with the condition ignored
push_underscore_if_always(stri, to_push, condition) == Append(stri, to_push)

\* push_underscore_if (lib.rs 242-246): push to_push when condition holds.
push_underscore_if(stri, to_push, condition) ==
    IF condition THEN Append(stri, to_push) ELSE stri

\* The arms of check_similar's match that push a literal (lib.rs 253-401):
\* the string pushed for the scalar c, <<>> when no such arm matches c.
SimilarTable(c) ==
    CASE
       c \in {65, 9398, 65313, 192, 193, 194, 7846, 7844, 7850, 7848, 195, 256, 258, 7856, 7854,
           7860, 7858, 550, 480, 196, 478, 7842, 197, 506, 461, 512, 514, 7840, 7852, 7862,
           7680, 260, 570, 11375} -> <<65>>   \* "A"
    [] c \in {42802} -> <<65, 65>>   \* "AA"
    [] c \in {198, 508, 482} -> <<65>>   \* "A"
    [] c \in {42804} -> <<65, 79>>   \* "AO"
    [] c \in {42806} -> <<65, 85>>   \* "AU"
    [] c \in {42808, 42810} -> <<65, 86>>   \* "AV"
    [] c \in {42812} -> <<65, 89>>   \* "AY"
    [] c \in {66, 9399, 65314, 7682, 7684, 7686, 579, 386, 385} -> <<66>>   \* "B"
    [] c \in {67, 9400, 65315, 262, 264, 266, 268, 199, 7688, 391, 571, 42814} -> <<67>>   \* "C"
    [] c \in {68, 9401, 65316, 7690, 270, 7692, 7696, 7698, 7694, 272, 395, 394, 393, 42873} -> <<68>>   \* "D"
    [] c \in {497, 452} -> <<68, 90>>   \* "DZ"
    [] c \in {498, 453} -> <<68, 122>>   \* "Dz"
    [] c \in {69, 9402, 65317, 200, 201, 202, 7872, 7870, 7876, 7874, 7868, 274, 7700, 7702, 276,
           278, 203, 7866, 282, 516, 518, 7864, 7878, 552, 7708, 280, 7704, 7706, 400, 398} -> <<69>>   \* "E"
    [] c \in {70, 9403, 65318, 7710, 401, 42875} -> <<70>>   \* "F"
    [] c \in {71, 9404, 65319, 500, 284, 7712, 286, 288, 486, 290, 484, 403, 42912, 42877, 42878} -> <<71>>   \* "G"
    [] c \in {72, 9405, 65320, 292, 7714, 7718, 542, 7716, 7720, 7722, 294, 11367, 11381, 42893} -> <<72>>   \* "H"
    [] c \in {73, 9406, 65321, 204, 205, 206, 296, 298, 300, 304, 207, 7726, 7880, 463, 520, 522,
           7882, 302, 7724, 407} -> <<73>>   \* "I"
    [] c \in {74, 9407, 65322, 308, 584} -> <<74>>   \* "J"
    [] c \in {75, 9408, 65323, 7728, 488, 7730, 310, 7732, 408, 11369, 42816, 42818, 42820,
           42914} -> <<75>>   \* "K"
    [] c \in {76, 9409, 65324, 319, 313, 317, 7734, 7736, 315, 7740, 7738, 321, 573, 11362,
           11360, 42824, 42822, 42880} -> <<76>>   \* "L"
    [] c \in {455} -> <<76, 74>>   \* "LJ"
    [] c \in {456} -> <<76, 106>>   \* "Lj"
    [] c \in {77, 9410, 65325, 7742, 7744, 7746, 11374, 412} -> <<77>>   \* "M"
    [] c \in {78, 9411, 65326, 504, 323, 209, 7748, 327, 7750, 325, 7754, 7752, 544, 413, 42896,
           42916} -> <<78>>   \* "N"
    [] c \in {458} -> <<78, 74>>   \* "NJ"
    [] c \in {459} -> <<78, 106>>   \* "Nj"
    [] c \in {79, 9412, 65327, 210, 211, 212, 7890, 7888, 7894, 7892, 213, 7756, 556, 7758, 332,
           7760, 7762, 334, 558, 560, 214, 554, 7886, 336, 465, 524, 526, 416, 7900, 7898,
           7904, 7902, 7906, 7884, 7896, 490, 492, 216, 510, 390, 415, 42826, 42828} -> <<79>>   \* "O"
    [] c \in {418} -> <<79, 73>>   \* "OI"
    [] c \in {42830} -> <<79, 79>>   \* "OO"
    [] c \in {546} -> <<79, 85>>   \* "OU"
    [] c \in {140, 338} -> <<79, 69>>   \* "OE"
    [] c \in {156, 339} -> <<111, 101>>   \* "oe"
    [] c \in {80, 9413, 65328, 7764, 7766, 420, 11363, 42832, 42834, 42836} -> <<80>>   \* "P"
    [] c \in {81, 9414, 65329, 42838, 42840, 586} -> <<81>>   \* "Q"
    [] c \in {82, 9415, 65330, 340, 7768, 344, 528, 530, 7770, 7772, 342, 7774, 588, 11364,
           42842, 42918, 42882} -> <<82>>   \* "R"
    [] c \in {83, 9416, 65331, 7838, 346, 7780, 348, 7776, 352, 7782, 7778, 7784, 536, 350,
           11390, 42920, 42884} -> <<83>>   \* "S"
    [] c \in {84, 9417, 65332, 7786, 356, 7788, 538, 354, 7792, 7790, 358, 428, 430, 574, 42886} -> <<84>>   \* "T"
    [] c \in {42792} -> <<84, 90>>   \* "TZ"
    [] c \in {85, 9418, 65333, 217, 218, 219, 360, 7800, 362, 7802, 364, 220, 475, 471, 469, 473,
           7910, 366, 368, 467, 532, 534, 431, 7914, 7912, 7918, 7916, 7920, 7908, 7794, 370,
           7798, 7796, 580} -> <<85>>   \* "U"
    [] c \in {86, 9419, 65334, 7804, 7806, 434, 42846, 581} -> <<86>>   \* "V"
    [] c \in {42848} -> <<86, 89>>   \* "VY"
    [] c \in {87, 9420, 65335, 7808, 7810, 372, 7814, 7812, 7816, 11378} -> <<87>>   \* "W"
    [] c \in {88, 9421, 65336, 7818, 7820} -> <<88>>   \* "X"
    [] c \in {89, 9422, 65337, 7922, 221, 374, 7928, 562, 7822, 376, 7926, 7924, 435, 590, 7934} -> <<89>>   \* "Y"
    [] c \in {90, 9423, 65338, 377, 7824, 379, 381, 7826, 7828, 437, 548, 11391, 11371, 42850} -> <<90>>   \* "Z"
    [] c \in {97, 9424, 65345, 7834, 224, 225, 226, 7847, 7845, 7851, 7849, 227, 257, 259, 7857,
           7855, 7861, 7859, 551, 481, 228, 479, 7843, 229, 507, 462, 513, 515, 7841, 7853,
           7863, 7681, 261, 11365, 592} -> <<97>>   \* "a"
    [] c \in {42803} -> <<97, 97>>   \* "aa"
    [] c \in {230, 509, 483} -> <<97>>   \* "a"
    [] c \in {42805} -> <<97, 111>>   \* "ao"
    [] c \in {42807} -> <<97, 117>>   \* "au"
    [] c \in {42809, 42811} -> <<97, 118>>   \* "av"
    [] c \in {42813} -> <<97, 121>>   \* "ay"
    [] c \in {98, 9425, 65346, 7683, 7685, 7687, 384, 387, 595, 254} -> <<98>>   \* "b"
    [] c \in {99, 9426, 65347, 263, 265, 267, 269, 231, 7689, 392, 572, 42815, 8580} -> <<99>>   \* "c"
    [] c \in {100, 9427, 65348, 7691, 271, 7693, 7697, 7699, 7695, 273, 396, 598, 599, 42874} -> <<100>>   \* "d"
    [] c \in {499, 454} -> <<100, 122>>   \* "dz"
    [] c \in {101, 9428, 65349, 232, 233, 234, 7873, 7871, 7877, 7875, 7869, 275, 7701, 7703,
           277, 279, 235, 7867, 283, 517, 519, 7865, 7879, 553, 7709, 281, 7705, 7707, 583,
           603, 477} -> <<101>>   \* "e"
    [] c \in {102, 9429, 65350, 7711, 402, 42876} -> <<102>>   \* "f"
    [] c \in {103, 9430, 65351, 501, 285, 7713, 287, 289, 487, 291, 485, 608, 42913, 7545, 42879} -> <<103>>   \* "g"
    [] c \in {104, 9431, 65352, 293, 7715, 7719, 543, 7717, 7721, 7723, 7830, 295, 11368, 11382,
           613} -> <<104>>   \* "h"
    [] c \in {405} -> <<104, 118>>   \* "hv"
    [] c \in {105, 9432, 65353, 236, 237, 238, 297, 299, 301, 239, 7727, 7881, 464, 521, 523,
           7883, 303, 7725, 616, 305} -> <<105>>   \* "i"
    [] c \in {106, 9433, 65354, 309, 496, 585} -> <<106>>   \* "j"
    [] c \in {107, 9434, 65355, 7729, 489, 7731, 311, 7733, 409, 11370, 42817, 42819, 42821,
           42915} -> <<107>>   \* "k"
    [] c \in {108, 9435, 65356, 320, 314, 318, 7735, 7737, 316, 7741, 7739, 383, 322, 410, 619,
           11361, 42825, 42881, 42823} -> <<108>>   \* "l"
    [] c \in {457} -> <<108, 106>>   \* "lj"
    [] c \in {109, 9436, 65357, 7743, 7745, 7747, 625, 623} -> <<109>>   \* "m"
    [] c \in {110, 9437, 65358, 505, 324, 241, 7749, 328, 7751, 326, 7755, 7753, 414, 626, 329,
           42897, 42917} -> <<110>>   \* "n"
    [] c \in {460} -> <<110, 106>>   \* "nj"
    [] c \in {111, 9438, 65359, 242, 243, 244, 7891, 7889, 7895, 7893, 245, 7757, 557, 7759, 333,
           7761, 7763, 335, 559, 561, 246, 555, 7887, 337, 466, 525, 527, 417, 7901, 7899,
           7905, 7903, 7907, 7885, 7897, 491, 493, 248, 511, 596, 42827, 42829, 629} -> <<111>>   \* "o"
    [] c \in {419} -> <<111, 105>>   \* "oi"
    [] c \in {547} -> <<111, 117>>   \* "ou"
    [] c \in {42831} -> <<111, 111>>   \* "oo"
    [] c \in {112, 9439, 65360, 7765, 7767, 421, 7549, 42833, 42835, 42837} -> <<112>>   \* "p"
    [] c \in {113, 9440, 65361, 587, 42839, 42841} -> <<113>>   \* "q"
    [] c \in {114, 9441, 65362, 341, 7769, 345, 529, 531, 7771, 7773, 343, 7775, 589, 637, 42843,
           42919, 42883} -> <<114>>   \* "r"
    [] c \in {115, 9442, 65363, 223, 347, 7781, 349, 7777, 353, 7783, 7779, 7785, 537, 351, 575,
           42921, 42885, 7835} -> <<115>>   \* "s"
    [] c \in {116, 9443, 65364, 7787, 7831, 357, 7789, 539, 355, 7793, 7791, 359, 429, 648,
           11366, 42887} -> <<116>>   \* "t"
    [] c \in {42793} -> <<116, 122>>   \* "tz"
    [] c \in {117, 9444, 65365, 249, 250, 251, 361, 7801, 363, 7803, 365, 252, 476, 472, 470,
           474, 7911, 367, 369, 468, 533, 535, 432, 7915, 7913, 7919, 7917, 7921, 7909, 7795,
           371, 7799, 7797, 649} -> <<117>>   \* "u"
    [] c \in {118, 9445, 65366, 7805, 7807, 651, 42847, 652} -> <<118>>   \* "v"
    [] c \in {42849} -> <<118, 121>>   \* "vy"
    [] c \in {119, 9446, 65367, 7809, 7811, 373, 7815, 7813, 7832, 7817, 11379} -> <<119>>   \* "w"
    [] c \in {120, 9447, 65368, 7819, 7821} -> <<120>>   \* "x"
    [] c \in {121, 9448, 65369, 7923, 253, 375, 7929, 563, 7823, 255, 7927, 7833, 7925, 436, 591,
           7935} -> <<121>>   \* "y"
    [] c \in {122, 9449, 65370, 378, 7825, 380, 382, 7827, 7829, 438, 549, 576, 11372, 42851} -> <<122>>   \* "z"
    [] OTHER -> <<>>

\* The combining diacritical marks of the empty arm (lib.rs 406).
is_combining_mark(c) ==
    \/ c \in 768..879       \* U+0300..U+036F
    \/ c \in 6832..6911     \* U+1AB0..U+1AFF
    \/ c \in 7616..7679     \* U+1DC0..U+1DFF

\* check_similar with the arm of U+2013 missing: the en-dash falls to the
\* default arm
check_similar_no_dash(curr_char, name_acc, last_was_under) ==
    IF curr_char.some
    THEN LET one_char == curr_char.ch IN
         IF SimilarTable(one_char) # <<>>
         THEN [name_acc |-> name_acc \o SimilarTable(one_char), ret |-> FALSE]
         ELSE IF is_combining_mark(one_char)
         THEN [name_acc |-> name_acc, ret |-> FALSE]
         ELSE [name_acc |-> push_underscore_if(name_acc, 95, ~last_was_under),
               ret |-> TRUE]
    ELSE [name_acc |-> name_acc, ret |-> FALSE]

\* check_similar (lib.rs 250-417): the name_acc after the call and the value
\* returned.  curr_char is [some |-> BOOLEAN, ch |-> scalar], the Option<char>.
check_similar(curr_char, name_acc, last_was_under) ==
    IF curr_char.some
    THEN LET one_char == curr_char.ch IN
         IF SimilarTable(one_char) # <<>>
         THEN [name_acc |-> name_acc \o SimilarTable(one_char), ret |-> FALSE]
         ELSE IF one_char = 8211                      \* U+2013, lib.rs 402-405
         THEN [name_acc |-> Append(name_acc, 45), ret |-> FALSE]
         ELSE IF is_combining_mark(one_char)          \* lib.rs 406, then 414
         THEN [name_acc |-> name_acc, ret |-> FALSE]
         ELSE [name_acc |-> push_underscore_if(name_acc, 95, ~last_was_under),
               ret |-> TRUE]                          \* lib.rs 407-412
    ELSE [name_acc |-> name_acc, ret |-> FALSE]       \* lib.rs 416

\* convert_four_to_u32 (lib.rs 421-431); the masked fields are disjoint, so
\* the bitwise or is their sum.
convert_four_to_u32(first_byte, second_byte, third_byte, fourth_byte) ==
    (first_byte % 8) * 262144 + (second_byte % 64) * 4096
        + (third_byte % 64) * 64 + (fourth_byte % 64)

\* convert_three_to_u32 (lib.rs 435-439).
convert_three_to_u32(first_byte, second_byte, third_byte) ==
    (first_byte % 32) * 4096 + (second_byte % 64) * 64 + (third_byte % 64)

\* convert_two_to_u32 with the marker bits of the bytes left in
convert_two_to_u32_unmasked(first_byte, second_byte) ==
    first_byte * 64 + second_byte

\* convert_two_to_u32 (lib.rs 443-445).
convert_two_to_u32(first_byte, second_byte) ==
    (first_byte % 32) * 64 + (second_byte % 64)

\* std::char::from_u32: Some(c) exactly for the Unicode scalar values.
from_u32(u) ==
    IF u \in 0..55295 \/ u \in 57344..1114111
    THEN [some |-> TRUE, ch |-> u]
    ELSE [some |-> FALSE, ch |-> 0]

\* is_collapse_byte with the arm 0..=44 missing
is_collapse_byte_no_control(byte) ==
    \/ byte = 47
    \/ byte \in 58..64
    \/ byte \in 91..96
    \/ byte \in 123..127

\* is_collapse_byte with the arm 47 widened to 46..=47
is_collapse_byte_with_period(byte) ==
    \/ byte \in 0..44
    \/ byte \in 46..47
    \/ byte \in 58..64
    \/ byte \in 91..96
    \/ byte \in 123..127

\* The arms of the match on an ASCII byte that push the placeholder
\* (lib.rs 458, 466, 470, 474, 478).
is_collapse_byte(byte) ==
    \/ byte \in 0..44
    \/ byte = 47
    \/ byte \in 58..64
    \/ byte \in 91..96
    \/ byte \in 123..127

\* ascii_byte with the default arm folding upper case to lower case
ascii_byte_folding(s, byte) ==
    IF is_collapse_byte(byte)
    THEN [s EXCEPT !.new_name = push_underscore_if(@, 95, ~s.last_was_underscore),
                   !.last_was_underscore = TRUE,
                   !.idx_grapheme = 0]
    ELSE [s EXCEPT !.new_name = Append(@, IF byte \in 65..90 THEN byte + 32 ELSE byte),
                   !.last_was_underscore = FALSE,
                   !.idx_grapheme = 0]

\* The match on an ASCII byte at a sequence boundary (lib.rs 457-487).
ascii_byte(s, byte) ==
    IF is_collapse_byte(byte)
    THEN [s EXCEPT !.new_name = push_underscore_if(@, 95, ~s.last_was_underscore),
                   !.last_was_underscore = TRUE,
                   !.idx_grapheme = 0]
    ELSE IF byte = 46
    THEN [s EXCEPT !.new_name = Append(@, 46),
                   !.last_was_underscore = FALSE,
                   !.idx_grapheme = 0]
    ELSE [s EXCEPT !.new_name = Append(@, byte),
                   !.last_was_underscore = FALSE,
                   !.idx_grapheme = 0]

\* sequence_length with the 4-byte class cut to the leading bytes of UTF-8
sequence_length_utf8(first_byte, idx) ==
    IF first_byte \in 240..247 /\ idx = 4 THEN 4
    ELSE IF first_byte \in 224..239 /\ idx = 3 THEN 3
    ELSE IF first_byte \in 128..223 /\ idx = 2 THEN 2
    ELSE 0

\* The conditions of the three decoding branches (lib.rs 492, 503, 513): the
\* length of the pending sequence once it is complete, 0 while it is not.
sequence_length(first_byte, idx) ==
    IF first_byte >= 240 /\ idx = 4 THEN 4
    ELSE IF first_byte \in 224..239 /\ idx = 3 THEN 3
    ELSE IF first_byte \in 128..223 /\ idx = 2 THEN 2
    ELSE 0

\* The else branch of the loop body (lib.rs 489-520): store the byte, and
\* decode and look up the sequence once it is complete.
grapheme_byte(s, byte) ==
    IF s.idx_grapheme > 3
    THEN [s EXCEPT !.panicked = TRUE]        \* vec_grapheme[4]: index out of bounds
    ELSE
    LET vec == [s.vec_grapheme EXCEPT ![s.idx_grapheme + 1] = byte]
        idx == s.idx_grapheme + 1
        n == sequence_length(vec[1], idx)
        u == CASE n = 4 -> convert_four_to_u32(vec[1], vec[2], vec[3], vec[4])
               [] n = 3 -> convert_three_to_u32(vec[1], vec[2], vec[3])
               [] n = 2 -> convert_two_to_u32(vec[1], vec[2])
               [] OTHER -> 0
        r == check_similar(from_u32(u), s.new_name, s.last_was_underscore)
    IN  IF n = 0
        THEN [s EXCEPT !.vec_grapheme = vec, !.idx_grapheme = idx]
        ELSE [s EXCEPT !.new_name = r.name_acc,
                       !.last_was_underscore = r.ret,
                       !.vec_grapheme = <<0, 0, 0, 0>>,
                       !.idx_grapheme = 0]

\* One iteration of clean_name's for loop (lib.rs 455-522).
loop_body(s, byte) ==
    IF s.panicked THEN s
    ELSE IF s.idx_grapheme = 0 /\ byte < 128
    THEN ascii_byte(s, byte)
    ELSE grapheme_byte(s, byte)

\* clean_name's locals before the loop (lib.rs 451-454).
loop_init ==
    [new_name |-> <<>>, vec_grapheme |-> <<0, 0, 0, 0>>,
     last_was_underscore |-> FALSE, idx_grapheme |-> 0, panicked |-> FALSE]

RECURSIVE clean_name_from(_, _, _)
clean_name_from(bytes, k, s) ==
    IF k > Len(bytes) THEN s
    ELSE clean_name_from(bytes, k + 1, loop_body(s, bytes[k]))

\* clean_name (lib.rs 449-524): the sanitized name of a component.
clean_name(bytes) == clean_name_from(bytes, 1, loop_init).new_name

-----------------------------------------------------------------------------
(* clean_name's loop as a state machine, one action per iteration.          *)

\* The pieces components are built from: ASCII bytes of every class of the
\* match, well-formed sequences of 2, 3 and 4 bytes of every arm of
\* check_similar, sequences that are no scalar value, and lone leading and
\* continuation bytes (which swallow or are swallowed by their neighbours).
Chunks ==
    { <<32>>,                   \* ' '  (0..=44)
      <<95>>,                   \* '_'  (91..=96)
      <<46>>,                   \* '.'
      <<45>>,                   \* '-'
      <<97>>,                   \* 'a'
      <<55>>,                   \* '7'
      <<90>>,                   \* 'Z'
      <<195, 169>>,             \* U+00E9, a table letter
      <<197, 146>>,             \* U+0152, a table ligature ("OE")
      <<204, 129>>,             \* U+0301, a combining mark
      <<226, 128, 147>>,        \* U+2013, the en-dash
      <<240, 159, 152, 128>>,   \* U+1F600, no arm of the table
      <<237, 160, 128>>,        \* 0xD800, a surrogate: no scalar value
      <<244, 144, 128, 128>>,   \* 0x110000: no scalar value
      <<195>>,                  \* a lone leading byte of a 2-byte sequence
      <<226>>,                  \* a lone leading byte of a 3-byte sequence
      <<223>>,                  \* the last leading byte of the 2-byte class
      <<224>>,                  \* the first leading byte of the 3-byte class
      <<255>>,                  \* the last byte of the 4-byte class
      <<169>> }                 \* a lone continuation byte

RECURSIVE Inputs(_)
Inputs(n) ==
    IF n = 0 THEN {<<>>}
    ELSE Inputs(n - 1) \cup {p \o c : p \in Inputs(n - 1), c \in Chunks}

\* the component of scenario A, "na\u{ef}ve_file:test.txt"
ScenarioA_name ==
    <<110, 97, 195, 175, 118, 101, 95, 102, 105, 108, 101, 58, 116, 101, 115, 116,
      46, 116, 120, 116>>

\* the locals of the loop, as loop_body takes them
loop_state ==
    [new_name |-> new_name, vec_grapheme |-> vec_grapheme,
     last_was_underscore |-> last_was_underscore, idx_grapheme |-> idx_grapheme,
     panicked |-> panicked]

SetLoopState(s) ==
    /\ new_name' = s.new_name
    /\ vec_grapheme' = s.vec_grapheme
    /\ last_was_underscore' = s.last_was_underscore
    /\ idx_grapheme' = s.idx_grapheme
    /\ panicked' = s.panicked

\* Output (lib.rs 81-97)
Default == [kind |-> "Default", json |-> "", pretty |-> FALSE]
Quiet == [kind |-> "Quiet", json |-> "", pretty |-> FALSE]
JsonOutput(json, pretty) == [kind |-> "JsonOutput", json |-> json, pretty |-> pretty]

\* parse_args is not running: NotoxArgs and the paths are given to run directly
ArgsIdle ==
    /\ args = <<>> /\ next_arg = 1 /\ output = Default /\ serde = FALSE
    /\ exit_code = 0

WalkIdle ==
    /\ fs = <<>> /\ dry_run = TRUE /\ rayon = FALSE /\ paths_to_check = {}
    /\ tasks = <<>> /\ results = <<>> /\ calls = <<>> /\ fs0 = <<>> /\ pc = "idle"
    /\ ArgsIdle

InitName ==
    /\ path \in Inputs(MaxChunks) \cup {ScenarioA_name}
    /\ i = 1
    /\ new_name = loop_init.new_name
    /\ vec_grapheme = loop_init.vec_grapheme
    /\ last_was_underscore = loop_init.last_was_underscore
    /\ idx_grapheme = loop_init.idx_grapheme
    /\ panicked = loop_init.panicked
    /\ cn_pc = "loop"
    /\ WalkIdle

\* An iteration that takes the branch of line 456: an ASCII byte at a
\* sequence boundary.
CleanNameAscii ==
    /\ cn_pc = "loop" /\ ~panicked /\ i <= Len(path)
    /\ idx_grapheme = 0 /\ path[i] < 128
    /\ SetLoopState(loop_body(loop_state, path[i]))
    /\ i' = i + 1
    /\ UNCHANGED <<path, cn_pc, walk_vars, pa_vars>>

\* An iteration that takes the else branch of line 488: a byte of a
\* multi-byte sequence.
CleanNameGrapheme ==
    /\ cn_pc = "loop" /\ ~panicked /\ i <= Len(path)
    /\ ~(idx_grapheme = 0 /\ path[i] < 128)
    /\ SetLoopState(loop_body(loop_state, path[i]))
    /\ i' = i + 1
    /\ UNCHANGED <<path, cn_pc, walk_vars, pa_vars>>

\* The end of the loop (lib.rs 523): new_name is returned.
CleanNameReturn ==
    /\ cn_pc = "loop" /\ ~panicked /\ i > Len(path)
    /\ cn_pc' = "returned"
    /\ UNCHANGED <<path, i, new_name, vec_grapheme, last_was_underscore,
                   idx_grapheme, panicked, walk_vars, pa_vars>>

NextName == CleanNameAscii \/ CleanNameGrapheme \/ CleanNameReturn

SpecName == InitName /\ [][NextName]_vars

-----------------------------------------------------------------------------
(* Properties of the sanitizer, checked under SpecName.                     *)

\* the characters a sanitized name may hold: letters, digits, '.', '-', '_'
SafeChars == (65..90) \cup (97..122) \cup (48..57) \cup {46, 45, 95}

\* the single bytes that trigger a collapse
CollapseBytes == (0..44) \cup {47} \cup (58..64) \cup (91..96) \cup (123..127)

\* the length of the sequence a leading byte announces
UnitLen(b) == IF b < 128 THEN 1 ELSE IF b < 224 THEN 2 ELSE IF b < 240 THEN 3 ELSE 4

\* the bit pattern assembled from a sequence of 2, 3 or 4 bytes
UnitBits(u) ==
    CASE Len(u) = 2 -> (u[1] % 32) * 64 + (u[2] % 64)
      [] Len(u) = 3 -> (u[1] % 16) * 4096 + (u[2] % 64) * 64 + (u[3] % 64)
      [] Len(u) = 4 -> (u[1] % 8) * 262144 + (u[2] % 64) * 4096
                           + (u[3] % 64) * 64 + (u[4] % 64)

IsScalar(u) == u \in 0..55295 \/ u \in 57344..1114111

\* whether an input (a single byte, or a complete sequence) triggers a collapse
IsCollapseUnit(u) ==
    IF Len(u) = 1 THEN u[1] \in CollapseBytes
    ELSE /\ IsScalar(UnitBits(u))
         /\ SimilarTable(UnitBits(u)) = <<>>
         /\ UnitBits(u) # 8211
         /\ ~is_combining_mark(UnitBits(u))

\* the number of maximal runs of collapse-triggering inputs in bytes from
\* position k on, prev telling whether the input before k was one
RECURSIVE CollapseRuns(_, _, _)
CollapseRuns(bytes, k, prev) ==
    IF k > Len(bytes) \/ k + UnitLen(bytes[k]) - 1 > Len(bytes) THEN 0
    ELSE LET c == IsCollapseUnit(SubSeq(bytes, k, k + UnitLen(bytes[k]) - 1))
         IN  (IF c /\ ~prev THEN 1 ELSE 0)
                 + CollapseRuns(bytes, k + UnitLen(bytes[k]), c)

Count95(s) == Cardinality({k \in DOMAIN s : s[k] = 95})

\* the loop is about to read path[i]
Reading == cn_pc = "loop" /\ i <= Len(path) /\ i' = i + 1

\* the sequence that reading path[i] completes, <<>> when it completes none
CompletedUnit ==
    LET u == [k \in 1..(idx_grapheme + 1) |->
                 IF k <= idx_grapheme THEN vec_grapheme[k] ELSE path[i]]
    IN  IF Len(u) > 1 /\ Len(u) = UnitLen(u[1]) THEN u ELSE <<>>

\* C1: the sanitized name never contains two consecutive underscores.
C1_NoDoubleUnderscore ==
    \A k \in 1..(Len(new_name) - 1) : ~(new_name[k] = 95 /\ new_name[k + 1] = 95)

\* C3: every character of the sanitized name is an ASCII letter, a digit, a
\* period, a hyphen or an underscore.
C3_SafeAscii == \A k \in DOMAIN new_name : new_name[k] \in SafeChars

C3_Witness ==
    /\ cn_pc = "returned"
    /\ \E k \in DOMAIN path : path[k] >= 128
    /\ \E k \in DOMAIN path : path[k] = 32
    /\ Len(new_name) >= 2

\* C4: every maximal run of collapse-triggering inputs contributes exactly
\* one underscore: after every complete input, and at the end, the number of
\* underscores of the name is the number of runs read so far.
C4_OneUnderscorePerRun ==
    /\ (cn_pc = "loop" /\ idx_grapheme = 0) =>
           Count95(new_name) = CollapseRuns(SubSeq(path, 1, i - 1), 1, FALSE)
    /\ cn_pc = "returned" => Count95(new_name) = CollapseRuns(path, 1, FALSE)

C4_Witness ==
    /\ cn_pc = "returned"
    /\ path = <<32, 240, 159, 152, 128, 95>>
    /\ new_name = <<95>>

\* C5 as claimed: every byte 0x2E of the component is pushed as '.' when it
\* is read, and clears the collapse state.
C5_EveryPeriod ==
    [][(Reading /\ path[i] = 46) =>
           (new_name' = Append(new_name, 46) /\ last_was_underscore' = FALSE)]_vars

\* C5, amended: every byte 0x2E read at a sequence boundary is pushed as '.'
\* when it is read and clears the collapse state, whatever precedes it; a
\* collapse-triggering byte read right after it pushes an underscore.
C5_PeriodAtBoundary ==
    [][/\ (Reading /\ idx_grapheme = 0 /\ path[i] = 46) =>
              (new_name' = Append(new_name, 46) /\ last_was_underscore' = FALSE)
       /\ (Reading /\ idx_grapheme = 0 /\ path[i] \in CollapseBytes
               /\ new_name # <<>> /\ new_name[Len(new_name)] = 46) =>
              new_name' = Append(new_name, 95)]_vars

C5_Witness ==
    /\ cn_pc = "returned"
    /\ path = <<95, 46, 95>>
    /\ new_name = <<95, 46, 95>>

\* C6: a decoded U+2013 pushes exactly one hyphen and clears the collapse
\* state whatever the state before; between two collapse-triggering inputs it
\* gives "_-_".
C6_EnDash ==
    /\ [][(Reading /\ CompletedUnit # <<>> /\ UnitBits(CompletedUnit) = 8211) =>
              (new_name' = Append(new_name, 45) /\ last_was_underscore' = FALSE)]_vars
    /\ []((cn_pc = "returned" /\ path = <<32, 226, 128, 147, 95>>) =>
              new_name = <<95, 45, 95>>)

C6_Witness ==
    /\ cn_pc = "returned"
    /\ path = <<32, 226, 128, 147, 95>>
    /\ new_name = <<95, 45, 95>>

\* C10: a sequence whose bit pattern is no scalar value pushes an underscore
\* (unless the collapse state is set) and sets the collapse state; a
\* sequence cut short by the end of the component does the same.
C10_MalformedCollapses ==
    /\ [][(Reading /\ CompletedUnit # <<>> /\ ~IsScalar(UnitBits(CompletedUnit))) =>
              /\ new_name' = IF last_was_underscore THEN new_name
                             ELSE Append(new_name, 95)
              /\ last_was_underscore' = TRUE]_vars
    /\ []((cn_pc = "returned" /\ idx_grapheme # 0) =>
              (new_name # <<>> /\ new_name[Len(new_name)] = 95))

-----------------------------------------------------------------------------------------------------------------------------------------------------
(* The filesystem.  A path is the sequence of its components, as Rust's     *)
(* Path::components gives them: a leading "." is kept (CurDir), so "./a b"  *)
(* and "a b" are different paths of the same entry.  fs maps the resolved   *)
(* path of every existing entry (<<>> is the working directory) to          *)
(* [kind |-> "dir" | "file", readable |-> BOOLEAN, fault |-> ..., ino |-> *)
(* ...], fault being "entry" for a directory whose listing ends with an     *)
(* error, "type" for a directory whose DirEntry holds no file type and      *)
(* whose file type cannot be read, and "none" otherwise; ino is the         *)
(* identity of the entry, which a rename keeps (the path it had before the  *)
(* walk).                                                                   *)

\* the component "."
CurDir == <<46>>

\* the path below the working directory that p names
resolve(p) == IF p # <<>> /\ p[1] = CurDir THEN Tail(p) ELSE p

\* Path::file_name (used at lib.rs 528): None for a path with no final
\* normal component.
file_name(p) ==
    IF p = <<>> \/ p[Len(p)] = CurDir THEN [some |-> FALSE, name |-> <<>>]
    ELSE [some |-> TRUE, name |-> p[Len(p)]]

\* the parent of a path
parent(p) == SubSeq(p, 1, Len(p) - 1)

\* with_file_name that pushes the name instead of replacing the final component
with_file_name_pushed(p, name) == Append(p, name)

\* Path::with_file_name (lib.rs 542): the same parent, a new final component
\* (an empty name leaves the parent with a trailing separator, "a b/").
with_file_name(p, name) == Append(parent(p), name)

is_prefix(p, q) == Len(p) <= Len(q) /\ SubSeq(q, 1, Len(p)) = p

\* the entries of the directory at the resolved path p in filesystem f
entries_of(f, p) == {q \in DOMAIN f : Len(q) = Len(p) + 1 /\ parent(q) = p}

\* Path::is_dir (lib.rs 888) and DirEntry::file_type().is_dir() (lib.rs 614-617)
is_dir(f, p) == resolve(p) \in DOMAIN f /\ f[resolve(p)].kind = "dir"

\* std::fs::read_dir (lib.rs 572) succeeds on a readable directory.
read_dir_ok(f, p) == is_dir(f, p) /\ f[resolve(p)].readable

\* DirEntry::path of the entries read_dir(p) lists: p joined with the name
read_dir(f, p) == {Append(p, q[Len(q)]) : q \in entries_of(f, resolve(p))}

\* the filesystem with every entry given its identity
with_inodes(f) ==
    [p \in DOMAIN f |-> [kind |-> f[p].kind, readable |-> f[p].readable,
                         fault |-> f[p].fault, ino |-> p]]

\* where the directory a ReadDir was opened on is now: nowhere when a rename
\* has replaced it
opened(f, handle) == {q \in DOMAIN f : f[q].ino = handle}

\* The error of rename(2) for std::fs::rename(from, to) (lib.rs 550), as
\* io::Error displays it, "" when it succeeds.  A target with an empty final
\* component names the parent itself ("", "./" or "a b/"); a source below a
\* file is no path, a source that does not exist is not found.  An existing
\* target is replaced when it is a file and from is a file, or an empty
\* directory and from is a directory.
rename_error(f, from, to) ==
    LET src == resolve(from)
        dst == resolve(to)
    IN  IF to = << <<>> >> THEN "No such file or directory (os error 2)"
        ELSE IF to = <<CurDir, <<>>>> THEN "Device or resource busy (os error 16)"
        ELSE IF \E k \in 1..(Len(src) - 1) :
                   SubSeq(src, 1, k) \in DOMAIN f /\ f[SubSeq(src, 1, k)].kind = "file"
        THEN "Not a directory (os error 20)"
        ELSE IF src \notin DOMAIN f THEN "No such file or directory (os error 2)"
        ELSE IF to[Len(to)] = <<>>
        THEN IF f[src].kind = "file" THEN "Not a directory (os error 20)"
             ELSE "Directory not empty (os error 39)"
        ELSE IF dst \notin DOMAIN f THEN ""
        ELSE IF f[src].kind = "dir" /\ f[dst].kind = "file"
        THEN "Not a directory (os error 20)"
        ELSE IF f[src].kind = "file" /\ f[dst].kind = "dir"
        THEN "Is a directory (os error 21)"
        ELSE IF f[src].kind = "dir" /\ entries_of(f, dst) # {}
        THEN "Directory not empty (os error 39)"
        ELSE ""

\* The filesystem after a successful rename(from, to): from and everything
\* below it move to to, replacing what was there.
renamed(f, from, to) ==
    LET src == resolve(from)
        dst == resolve(to)
        moved == {q \in DOMAIN f : is_prefix(src, q)}
        kept == (DOMAIN f \ moved) \ {dst}
        target(q) == dst \o SubSeq(q, Len(src) + 1, Len(q))
        dom == kept \cup {target(q) : q \in moved}
    IN  [q \in dom |->
            IF q \in kept THEN f[q]
            ELSE f[CHOOSE o \in moved : target(o) = q]]

-----
(* The rename engine and the walker.                                        *)

NoPath == <<<<0>>>>     \* Option::None of the serialized "modified" field

Unchanged(p) == [kind |-> "Unchanged", path |-> p, modified |-> NoPath, error |-> ""]
Changed(p, m) == [kind |-> "Changed", path |-> p, modified |-> m, error |-> ""]
ErrorRename(p, m, e) == [kind |-> "ErrorRename", path |-> p, modified |-> m, error |-> e]
Error(p, e) == [kind |-> "Error", path |-> p, modified |-> NoPath, error |-> e]

\* clean_path without the dry_run test of line 543
clean_path_no_dry_run(f, file_path, dry) ==
    IF ~file_name(file_path).some
    THEN [change |-> Unchanged(file_path), fs |-> f, calls |-> <<>>]
    ELSE
    LET cleaned_name == clean_name(file_name(file_path).name)
        cleaned_path == with_file_name(file_path, cleaned_name)
        err == rename_error(f, file_path, cleaned_path)
        call == [op |-> "rename", from |-> file_path, to |-> cleaned_path,
                 ok |-> err = ""]
    IN  IF cleaned_name = file_name(file_path).name
        THEN [change |-> Unchanged(file_path), fs |-> f, calls |-> <<>>]
        ELSE IF err = ""
        THEN [change |-> Changed(file_path, cleaned_path),
              fs |-> renamed(f, file_path, cleaned_path), calls |-> <<call>>]
        ELSE [change |-> ErrorRename(file_path, cleaned_path, err),
              fs |-> f, calls |-> <<call>>]

\* clean_path (lib.rs 527-561) on filesystem f: the PathChange returned, the
\* filesystem afterwards and the rename calls made.
clean_path(f, file_path, dry) ==
    IF ~file_name(file_path).some
    THEN [change |-> Unchanged(file_path), fs |-> f, calls |-> <<>>]
    ELSE
    LET cleaned_name == clean_name(file_name(file_path).name)
        cleaned_path == with_file_name(file_path, cleaned_name)
        err == rename_error(f, file_path, cleaned_path)
        call == [op |-> "rename", from |-> file_path, to |-> cleaned_path,
                 ok |-> err = ""]
    IN  IF cleaned_name = file_name(file_path).name
        THEN [change |-> Unchanged(file_path), fs |-> f, calls |-> <<>>]
        ELSE IF dry
        THEN [change |-> ErrorRename(file_path, cleaned_path, "dry-run"),
              fs |-> f, calls |-> <<>>]
        ELSE IF err = ""
        THEN [change |-> Changed(file_path, cleaned_path),
              fs |-> renamed(f, file_path, cleaned_path), calls |-> <<call>>]
        ELSE [change |-> ErrorRename(file_path, cleaned_path, err),
              fs |-> f, calls |-> <<call>>]

\* continued_path without the update of line 569
continued_path_old(dir_path, res_dir) == dir_path

\* The path clean_directory goes on with after clean_path (lib.rs 568-570).
continued_path(dir_path, res_dir) ==
    IF res_dir.kind = "Changed" THEN res_dir.modified ELSE dir_path

\* the sequences that list the elements of S, each once
Orders(S) ==
    {s \in [1..Cardinality(S) -> S] : \A a, b \in DOMAIN s : s[a] = s[b] => a = b}

\* The orders an iterator (a HashSet's, a ReadDir's) may yield S in: any,
\* with or without rayon (par_iter keeps the order of the collection).
IterOrders(S) == Orders(S)

\* A pending call of a map closure: of Notox::run's (lib.rs 884-895, root) or
\* of clean_directory's (lib.rs 612-624).  Its phase is
\*   "call"  the file type is still to be read (lib.rs 888, or 614 for a
\*           DirEntry that holds no file type),
\*   "file"  clean_path is about to be called (lib.rs 621, 891),
\*   "dir"   clean_directory is about to be called (lib.rs 619, 889),
\*   "open"  clean_directory has cleaned its own path (lib.rs 567-571) and
\*           is about to call read_dir,
\*   "read"  read_dir has returned the ReadDir handle (lib.rs 572) and the
\*           entries are about to be read from it (lib.rs 577-578, 595).
\* at is the number of results that precede the call's own in the collected
\* vector: map, flatten, extend and collect keep the iterator's order,
\* whatever the order of execution.
Task(p, root, phase, at, handle) ==
    [path |-> p, root |-> root, phase |-> phase, at |-> at, handle |-> handle]

\* is_entry_directory (lib.rs 614-617) for a DirEntry that holds no file
\* type: read when the closure runs, false when it cannot be read
is_entry_directory(f, file_path) ==
    is_dir(f, file_path) /\ f[resolve(file_path)].fault # "type"

\* whether the closure takes the clean_directory branch (lib.rs 888, 618),
\* read from the filesystem when the closure runs
task_is_dir(t) ==
    IF t.root THEN is_dir(fs, t.path) ELSE is_entry_directory(fs, t.path)

\* the closure calls after the k-th, with n more results before them
shifted(s, k, n) == [j \in 1..(Len(s) - k) |-> [s[k + j] EXCEPT !.at = @ + n]]

\* replace_at that drops the closure calls still pending after the k-th
replace_at_dropping(s, k, new, n) == SubSeq(s, 1, k - 1) \o new

\* the closure calls with the k-th replaced by new, n results being added
\* at its place
replace_at(s, k, new, n) == SubSeq(s, 1, k - 1) \o new \o shifted(s, k, n)

\* the vector with the results new put after the first k
insert_at(s, k, new) == SubSeq(s, 1, k) \o new \o SubSeq(s, k + 1, Len(s))

\* What a closure call does next, by its phase and the result of read_dir
\* (lib.rs 572).
reads_file_type(t) == t.phase = "call"
runs_clean_path(t) == t.phase = "file"
runs_clean_directory(t) == t.phase = "dir"
reads_entries(t) == t.phase = "open" /\ read_dir_ok(fs, t.path)
fails_to_read(t) == t.phase = "open" /\ ~read_dir_ok(fs, t.path)
lists_entries(t) == t.phase = "read"

\* The tasks a worker may run next: without rayon the iterators are
\* sequential and depth-first, so only the first; with rayon any of them.
Runnable == IF rayon THEN 1..Len(tasks) ELSE {k \in {1} : k <= Len(tasks)}

\* Notox::run (lib.rs 874-897) starts: one closure call per path, in the
\* HashSet's iteration order.
Run ==
    /\ pc = "start"
    /\ \E order \in IterOrders(paths_to_check) :
          tasks' = [k \in DOMAIN order |-> Task(order[k], TRUE, "call", 0, NoPath)]
    /\ pc' = "running"
    /\ UNCHANGED <<fs, dry_run, rayon, paths_to_check, results, calls, fs0, cn_vars,
                   pa_vars>>

\* A closure call reads the file type of its path: one_path.is_dir()
\* (lib.rs 888) or entry.file_type() (lib.rs 614-617).
FileType ==
    /\ pc = "running"
    /\ \E k \in Runnable :
          /\ reads_file_type(tasks[k])
          /\ tasks' = [tasks EXCEPT ![k].phase =
                          IF task_is_dir(tasks[k]) THEN "dir" ELSE "file"]
    /\ UNCHANGED <<fs, dry_run, rayon, paths_to_check, results, calls, fs0, pc,
                   cn_vars, pa_vars>>

\* A closure call on something that is no directory: clean_path
\* (lib.rs 621-622, 891-892).
CleanPath ==
    /\ pc = "running"
    /\ \E k \in Runnable :
          /\ runs_clean_path(tasks[k])
          /\ LET r == clean_path(fs, tasks[k].path, dry_run) IN
                /\ fs' = r.fs
                /\ calls' = calls \o r.calls
                /\ results' = insert_at(results, tasks[k].at, <<r.change>>)
                /\ tasks' = replace_at(tasks, k, <<>>, 1)
    /\ UNCHANGED <<dry_run, rayon, paths_to_check, fs0, pc, cn_vars, pa_vars>>

\* clean_directory up to line 571: clean the directory's own path and go on
\* under the new path if it was renamed.
CleanDirectorySelf ==
    /\ pc = "running"
    /\ \E k \in Runnable :
          /\ runs_clean_directory(tasks[k])
          /\ LET r == clean_path(fs, tasks[k].path, dry_run) IN
                /\ fs' = r.fs
                /\ calls' = calls \o r.calls
                /\ results' = insert_at(results, tasks[k].at, <<r.change>>)
                /\ tasks' = replace_at(tasks, k,
                                <<Task(continued_path(tasks[k].path, r.change),
                                       tasks[k].root, "open", tasks[k].at + 1,
                                       NoPath)>>, 1)
    /\ UNCHANGED <<dry_run, rayon, paths_to_check, fs0, pc, cn_vars, pa_vars>>

\* clean_directory, line 572: read_dir succeeds and returns the handle of
\* the directory.
CleanDirectoryOpen ==
    /\ pc = "running"
    /\ \E k \in Runnable :
          /\ reads_entries(tasks[k])
          /\ tasks' = [tasks EXCEPT ![k].phase = "read",
                                    ![k].handle = fs[resolve(tasks[k].path)].ino]
          /\ calls' = Append(calls, [op |-> "read_dir", from |-> tasks[k].path,
                                     to |-> NoPath, ok |-> TRUE])
    /\ UNCHANGED <<fs, dry_run, rayon, paths_to_check, results, fs0, pc, cn_vars,
                   pa_vars>>

\* The Err items of a listing (lib.rs 584-589, 598-601): the listing of a
\* directory with the fault "entry" ends with one, after the entries in got.
entry_errors(f, dir_path, handle) ==
    IF \E q \in opened(f, handle) : f[q].fault = "entry"
    THEN <<Error(dir_path,
            "Error reading dir entry of directory Input/output error (os error 5)")>>
    ELSE <<>>

\* the sets of entries a listing of the opened directory may yield as Ok
\* items: all of them, or any of them before the error that ends it
listed_entries(f, handle) ==
    LET all == UNION {entries_of(f, q) : q \in opened(f, handle)}
    IN  IF \E q \in opened(f, handle) : f[q].fault = "entry"
        THEN SUBSET all ELSE {all}

\* The closure call of a listed entry: a DirEntry holds the file type that
\* the listing gave (file_type() is then the branch taken, lib.rs 614-618),
\* unless the listing gave none.
entry_phase(f, q) ==
    IF f[q].fault = "type" THEN "call"
    ELSE IF f[q].kind = "dir" THEN "dir" ELSE "file"

\* clean_directory, lines 573-627: the entries are read from the handle;
\* one Error per Err item, then one closure call per entry, in the
\* listing's order, on dir_path joined with the entry's name.
CleanDirectoryList ==
    /\ pc = "running"
    /\ \E k \in Runnable :
          /\ lists_entries(tasks[k])
          /\ LET errs == entry_errors(fs, tasks[k].path, tasks[k].handle) IN
             /\ results' = insert_at(results, tasks[k].at, errs)
             /\ \E got \in listed_entries(fs, tasks[k].handle) :
                   \E order \in IterOrders(got) :
                      tasks' = replace_at(tasks, k,
                                  [n \in DOMAIN order |->
                                      Task(Append(tasks[k].path,
                                                  order[n][Len(order[n])]),
                                           FALSE, entry_phase(fs, order[n]),
                                           tasks[k].at + Len(errs), NoPath)],
                                  Len(errs))
    /\ UNCHANGED <<fs, dry_run, rayon, paths_to_check, calls, fs0, pc, cn_vars,
                   pa_vars>>

\* CleanDirectoryListError that gives up the whole walk
CleanDirectoryListError_aborts ==
    /\ pc = "running"
    /\ \E k \in Runnable :
          /\ fails_to_read(tasks[k])
          /\ results' = insert_at(results, tasks[k].at,
                             <<Error(tasks[k].path, "Error while reading directory")>>)
          /\ tasks' = <<>>
          /\ calls' = Append(calls, [op |-> "read_dir", from |-> tasks[k].path,
                                     to |-> NoPath, ok |-> FALSE])
    /\ UNCHANGED <<fs, dry_run, rayon, paths_to_check, fs0, pc, cn_vars, pa_vars>>

\* clean_directory, lines 628-633: read_dir fails; one Error for the
\* directory and no entry is visited.
CleanDirectoryListError ==
    /\ pc = "running"
    /\ \E k \in Runnable :
          /\ fails_to_read(tasks[k])
          /\ results' = insert_at(results, tasks[k].at,
                             <<Error(tasks[k].path, "Error while reading directory")>>)
          /\ tasks' = replace_at(tasks, k, <<>>, 1)
          /\ calls' = Append(calls, [op |-> "read_dir", from |-> tasks[k].path,
                                     to |-> NoPath, ok |-> FALSE])
    /\ UNCHANGED <<fs, dry_run, rayon, paths_to_check, fs0, pc, cn_vars, pa_vars>>

\* Notox::run returns the collected results (lib.rs 897).
Collect ==
    /\ pc = "running" /\ tasks = <<>>
    /\ pc' = "done"
    /\ UNCHANGED <<fs, dry_run, rayon, paths_to_check, tasks, results, calls, fs0,
                   cn_vars, pa_vars>>

\* The names of the entries: one that is renamed to the name of another,
\* that name (which sanitizing leaves as it is), and one of literal-class
\* bytes only.
Names ==
    { <<97, 32, 98>>,       \* "a b", sanitized "a_b"
      <<97, 95, 98>>,       \* "a_b"
      <<99, 46, 100>> }     \* "c.d"

\* the sets of paths of the filesystems with at most n entries
RECURSIVE PathSets(_)
PathSets(n) ==
    IF n = 0 THEN {{<<>>}}
    ELSE PathSets(n - 1) \cup
         UNION {{S \cup {Append(p, nm)} : p \in S, nm \in Names}
                : S \in PathSets(n - 1)}

File == [kind |-> "file", readable |-> TRUE, fault |-> "none"]
Dir == [kind |-> "dir", readable |-> TRUE, fault |-> "none"]

Attrs ==
    { File, Dir,
      [kind |-> "dir", readable |-> FALSE, fault |-> "none"],
      [kind |-> "dir", readable |-> TRUE, fault |-> "entry"],
      [kind |-> "dir", readable |-> TRUE, fault |-> "type"] }

\* the filesystems over a set of paths: what has entries is a directory, the
\* working directory is readable, and at most one directory is unreadable or
\* has a fault
FilesystemsOver(S) ==
    {with_inodes(f) : f \in
        {g \in [S -> Attrs] :
            /\ g[<<>>] = Dir
            /\ \A q \in S : q # <<>> => g[parent(q)].kind = "dir"
            /\ Cardinality({q \in S : g[q] \notin {File, Dir}}) <= 1}}

Filesystems == UNION {FilesystemsOver(S) : S \in PathSets(MaxEntries)}

\* The size (working directory included) of the filesystems walked with
\* rayon: one entry less when a directory is unreadable or has a fault.
MaxParallel(f) ==
    IF \A q \in DOMAIN f : f[q].readable /\ f[q].fault = "none"
    THEN MaxEntries + 1 ELSE MaxEntries

\* the paths given to run: "." or some of the entries of the working directory
RootSets(f) == {{<<CurDir>>}} \cup (SUBSET entries_of(f, <<>>) \ {{}})

InitWalk ==
    /\ fs0 \in Filesystems
    /\ fs = fs0
    /\ dry_run \in BOOLEAN
    /\ rayon \in BOOLEAN
    /\ rayon => Cardinality(DOMAIN fs0) <= MaxParallel(fs0)
    /\ paths_to_check \in RootSets(fs0)
    /\ tasks = <<>> /\ results = <<>> /\ calls = <<>>
    /\ pc = "start"
    /\ path = <<>> /\ i = 1 /\ new_name = <<>> /\ vec_grapheme = <<0, 0, 0, 0>>
    /\ last_was_underscore = FALSE /\ idx_grapheme = 0 /\ panicked = FALSE
    /\ cn_pc = "idle"
    /\ ArgsIdle

Next ==
    \/ Run
    \/ FileType
    \/ CleanPath
    \/ CleanDirectorySelf
    \/ CleanDirectoryOpen
    \/ CleanDirectoryList
    \/ CleanDirectoryListError
    \/ Collect

Spec == InitWalk /\ [][Next]_vars

-----------------------------------------------------------------------------
(* The command line: parse_args, then the walk (run_from_args).             *)

\* PathBuf::from(one_arg) (lib.rs 751) for the arguments that name a path
path_buf_from(one_arg) ==
    CASE one_arg = "." -> <<CurDir>>
      [] one_arg = "a b" -> << <<97, 32, 98>> >>
      [] one_arg = "c.d" -> << <<99, 46, 100>> >>
      [] OTHER -> NoPath

\* get_path_of_dir (lib.rs 638-647): the sets of paths it may return, each
\* path dir_path joined with the name of an entry ("./a b" for ".").  The
\* Err items of the listing are filtered out (lib.rs 643), so a listing that
\* ends with an error gives the entries read before it; a directory that
\* cannot be read gives none (lib.rs 646).
get_path_of_dir(f, dir_path) ==
    IF read_dir_ok(f, dir_path)
    THEN {{Append(dir_path, q[Len(q)]) : q \in got} :
             got \in listed_entries(f, f[resolve(dir_path)].ino)}
    ELSE {{}}

\* one iteration of parse_args with the test of "-d" / "--do" missing
parse_arg_always_do(s, one_arg, f, has_serde, paths) == [s EXCEPT !.dry_run = FALSE]

\* One iteration of the loop of parse_args (lib.rs 668-755) on filesystem f:
\* s holds dry_run, output, path_to_check and err, the code of the Err
\* returned from inside the loop (0: none); paths is what get_path_of_dir(".")
\* returns if it is called (lib.rs 749).
parse_arg(s, one_arg, f, has_serde, paths) ==
    IF one_arg \in {"-d", "--do"}
    THEN [s EXCEPT !.dry_run = FALSE]
    ELSE IF one_arg \in {"-h", "--help"} THEN [s EXCEPT !.err = 1]
    ELSE IF one_arg \in {"-v", "--version"} THEN [s EXCEPT !.err = 1]
    ELSE IF one_arg \in {"-p", "--json-pretty"}
    THEN IF ~has_serde THEN [s EXCEPT !.err = 2]
         ELSE IF s.output.kind = "JsonOutput"
         THEN [s EXCEPT !.output = JsonOutput(s.output.json, TRUE)]
         ELSE [s EXCEPT !.output = JsonOutput("JsonDefault", TRUE)]
    ELSE IF one_arg \in {"-e", "--json-error"}
    THEN IF ~has_serde THEN [s EXCEPT !.err = 2]
         ELSE IF s.output.kind = "JsonOutput"
         THEN [s EXCEPT !.output = JsonOutput("JsonOnlyError", s.output.pretty)]
         ELSE [s EXCEPT !.output = JsonOutput("JsonOnlyError", FALSE)]
    ELSE IF one_arg \in {"-j", "--json"}
    THEN IF ~has_serde THEN [s EXCEPT !.err = 2]
         ELSE IF s.output.kind = "JsonOutput"
         THEN [s EXCEPT !.output = JsonOutput("JsonDefault", s.output.pretty)]
         ELSE [s EXCEPT !.output = JsonOutput("JsonDefault", FALSE)]
    ELSE IF one_arg \in {"-q", "--quiet"} THEN [s EXCEPT !.output = Quiet]
    ELSE IF one_arg = "*"
    THEN [s EXCEPT !.path_to_check = @ \cup paths]
    ELSE IF resolve(path_buf_from(one_arg)) \in DOMAIN f   \* std::fs::metadata is Ok
    THEN [s EXCEPT !.path_to_check = @ \cup {path_buf_from(one_arg)}]
    ELSE s                                           \* "Cannot find path"

\* the arguments of the command line
Tokens ==
    {"-d", "--do", "-h", "--help", "-v", "--version", "-p", "--json-pretty",
     "-e", "--json-error", "-j", "--json", "-q", "--quiet", "*", ".", "a b", "c.d"}

RECURSIVE ArgLists(_)
ArgLists(n) ==
    IF n = 0 THEN {<<"notox">>}
    ELSE ArgLists(n - 1) \cup {Append(a, t) : a \in ArgLists(n - 1), t \in Tokens}

\* the filesystems of the runs from the command line: an empty working
\* directory, one that holds "a b", and one where the directory "a b" holds
\* another "a b"; the listing of the working directory may end with an
\* error, or the working directory may be unreadable
ArgFilesystems ==
    LET plain ==
            {f \in FilesystemsOver({<<>>})
                    \cup FilesystemsOver({<<>>, << <<97, 32, 98>> >>}) :
                \A q \in DOMAIN f : f[q].fault = "none"}
            \cup {f \in FilesystemsOver({<<>>, << <<97, 32, 98>> >>,
                                          << <<97, 32, 98>>, <<97, 32, 98>> >>}) :
                     \A q \in DOMAIN f : f[q].readable /\ f[q].fault = "none"}
    IN  plain \cup {[f EXCEPT ![<<>>].fault = "entry"] :
                       f \in {g \in plain : \A q \in DOMAIN g : g[q].readable}}
                \cup {[f EXCEPT ![<<>>].readable = FALSE] :
                       f \in {g \in plain : \A q \in DOMAIN g : g[q].readable}}

\* parse_args is entered (lib.rs 663-666).
InitArgs ==
    /\ args \in ArgLists(MaxArgs)
    /\ next_arg = 2
    /\ dry_run = TRUE
    /\ output = Default
    /\ paths_to_check = {}
    /\ exit_code = 0
    /\ serde \in BOOLEAN
    /\ rayon \in BOOLEAN
    /\ fs0 \in ArgFilesystems
    /\ fs = fs0
    /\ tasks = <<>> /\ results = <<>> /\ calls = <<>>
    /\ pc = "parse"
    /\ path = <<>> /\ i = 1 /\ new_name = <<>> /\ vec_grapheme = <<0, 0, 0, 0>>
    /\ last_was_underscore = FALSE /\ idx_grapheme = 0 /\ panicked = FALSE
    /\ cn_pc = "idle"

\* One iteration of the loop of parse_args; a return from inside the loop
\* ends the invocation with its code.
ParseArg ==
    /\ pc = "parse" /\ next_arg <= Len(args)
    /\ \E paths \in get_path_of_dir(fs, path_buf_from(".")) :
       LET s == parse_arg([dry_run |-> dry_run, output |-> output,
                           path_to_check |-> paths_to_check, err |-> 0],
                          args[next_arg], fs, serde, paths)
       IN  /\ dry_run' = s.dry_run
           /\ output' = s.output
           /\ paths_to_check' = s.path_to_check
           /\ exit_code' = s.err
           /\ pc' = IF s.err # 0 THEN "exit" ELSE "parse"
    /\ next_arg' = next_arg + 1
    /\ UNCHANGED <<args, serde, fs, rayon, tasks, results, calls, fs0, cn_vars>>

\* The end of parse_args (lib.rs 757-761): the entries of "." when no path
\* was given; run_from_args then calls run with the result (lib.rs 859-860).
ParseArgsReturn ==
    /\ pc = "parse" /\ next_arg > Len(args)
    /\ \E paths \in get_path_of_dir(fs, path_buf_from(".")) :
          paths_to_check' = IF paths_to_check = {} THEN paths ELSE paths_to_check
    /\ pc' = "start"
    /\ UNCHANGED <<args, next_arg, output, serde, exit_code, dry_run, fs, rayon,
                   tasks, results, calls, fs0, cn_vars>>

NextArgs ==
    \/ ParseArg
    \/ ParseArgsReturn
    \/ Next

SpecArgs == InitArgs /\ [][NextArgs]_vars

-----------------------------------------------------------------------------
(* Properties of the rename engine and the walker, checked under Spec.      *)

Range(s) == {s[k] : k \in DOMAIN s}

\* The paths a walk of filesystem f from p visits whatever a faulty listing
\* yields, when nothing is renamed: the walk goes below a readable directory
\* (a root, or an entry whose file type can be read), and what is below a
\* directory whose listing ends with an error is not counted.
RECURSIVE VisitedFrom(_, _, _)
VisitedFrom(f, p, root) ==
    {p} \cup (IF /\ read_dir_ok(f, p)
                 /\ (root \/ f[resolve(p)].fault # "type")
                 /\ f[resolve(p)].fault # "entry"
              THEN UNION {VisitedFrom(f, q, FALSE) : q \in read_dir(f, p)}
              ELSE {})

Visited == UNION {VisitedFrom(fs0, p, TRUE) : p \in paths_to_check}

\* the pending closure calls, whatever the places of their results
call_of(t) == [t EXCEPT !.at = 0]
Pending(s) == {call_of(t) : t \in Range(s)}

\* the sequence without its k-th element
without(s, k) == [j \in 1..(Len(s) - 1) |-> IF j < k THEN s[j] ELSE s[j + 1]]

\* whether the final component of p is changed by sanitizing
NeedsRename(p) ==
    file_name(p).some /\ clean_name(file_name(p).name) # file_name(p).name

\* the path with the final component of p sanitized
Sanitized(p) == Append(SubSeq(p, 1, Len(p) - 1), clean_name(p[Len(p)]))

\* the step adds one outcome of clean_path, o, to the results
CleanPathReturns(o) ==
    /\ o.kind # "Error"
    /\ \E k \in 0..Len(results) :
          results' = SubSeq(results, 1, k) \o <<o>> \o SubSeq(results, k + 1, Len(results))

\* the step makes one more call, c
Calls(c) == calls' = Append(calls, c)

\* C2: a dry run makes no call of rename and leaves the filesystem as it was,
\* and once it is done the result holds ErrorRename "dry-run" for every
\* visited path whose final component sanitizing changes.
C2_DryRun ==
    dry_run =>
        /\ fs = fs0
        /\ \A c \in Range(calls) : c.op # "rename"
        /\ pc = "done" =>
              \A p \in Visited : NeedsRename(p) =>
                  ErrorRename(p, Sanitized(p), "dry-run") \in Range(results)

C2_Witness ==
    /\ dry_run /\ pc = "done"
    /\ \E r \in Range(results) :
          r.kind = "ErrorRename" /\ r.error = "dry-run" /\ Len(resolve(r.path)) = 2
    /\ \E r \in Range(results) : r.kind = "Unchanged" /\ file_name(r.path).some

\* the filesystem and the result of scenario E: a directory "a b" holding
\* the file "a_b"
ScenarioE_fs ==
    with_inodes((<<>> :> Dir)
                @@ (<< <<97, 32, 98>> >> :> Dir)
                @@ (<< <<97, 32, 98>>, <<97, 95, 98>> >> :> File))

ScenarioE_results ==
    << Changed(<< <<97, 32, 98>> >>, << <<97, 95, 98>> >>),
       Unchanged(<< <<97, 95, 98>>, <<97, 95, 98>> >>) >>

\* C7: a directory's own path is cleaned before the directory is read; when
\* its rename succeeds the directory is read under the new path and its
\* entries are visited under it, so no outcome has a path below the old name;
\* scenario E gives Changed for the directory and Unchanged for the file
\* under the new name.
C7_RenameBeforeList ==
    /\ [][\A c \in [op : {"read_dir"}, from : {t.path : t \in Range(tasks)},
                    to : {NoPath}, ok : BOOLEAN] :
             Calls(c) =>
                \E r \in Range(results) :
                   /\ r.kind # "Error"
                   /\ c.from = (IF r.kind = "Changed" THEN r.modified ELSE r.path)]_vars
    /\ [][\A x \in Range(tasks') :
             (~x.root /\ x.phase \in {"call", "file", "dir"}
                 /\ call_of(x) \notin Pending(tasks)
                 /\ call_of([x EXCEPT !.phase = "call"]) \notin Pending(tasks)) =>
                \E t \in Range(tasks) :
                   /\ t.phase = "read" /\ parent(x.path) = t.path
                   /\ \E c \in Range(calls) : c.op = "read_dir" /\ c.ok /\ c.from = t.path
                   /\ \E r \in Range(results) :
                         /\ r.kind = "Changed" => t.path = r.modified
                         /\ r.kind # "Changed" => t.path = r.path
                         /\ r.kind # "Error"]_vars
    /\ [][\A t \in Range(tasks) :
             (~dry_run /\ t.phase = "dir" /\ NeedsRename(t.path)
                 /\ CleanPathReturns(Changed(t.path, Sanitized(t.path)))
                 /\ Len(tasks') = Len(tasks)) =>
                \E n \in DOMAIN results' :
                   /\ results'[n] = Changed(t.path, Sanitized(t.path))
                   /\ Task(Sanitized(t.path), t.root, "open", n, NoPath)
                         \in Range(tasks')]_vars
    /\ [](\A r, d \in Range(results) :
             r.kind = "Changed" => ~(is_prefix(r.path, d.path) /\ d.path # r.path))
    /\ []((pc = "done" /\ ~dry_run /\ fs0 = ScenarioE_fs
              /\ paths_to_check = {<< <<97, 32, 98>> >>}) =>
             results = ScenarioE_results)

C7_Witness ==
    /\ pc = "done" /\ ~dry_run /\ fs0 = ScenarioE_fs
    /\ results = ScenarioE_results

\* C8: a call of clean_path gives one outcome: Unchanged and no call when
\* sanitizing leaves the final component as it is; else in a dry run
\* ErrorRename "dry-run" and no call; else one rename to the sanitized name
\* in the same parent, Changed when it succeeds, and when it fails
\* ErrorRename with the error's text, the filesystem as it was and, for a
\* directory, the walk going on under the original path.
C8_CleanPathOutcome ==
    [][\A t \in Range(tasks) : \A o \in Range(results') :
          (t.phase \in {"file", "dir"} /\ file_name(t.path).some /\ o.path = t.path
               /\ CleanPathReturns(o)) =>
             LET p == t.path
                 to == Sanitized(p)
             IN  /\ ~NeedsRename(p) =>
                        o = Unchanged(p) /\ fs' = fs /\ calls' = calls
                 /\ (NeedsRename(p) /\ dry_run) =>
                        o = ErrorRename(p, to, "dry-run") /\ fs' = fs /\ calls' = calls
                 /\ (NeedsRename(p) /\ ~dry_run) =>
                        \/ /\ o = Changed(p, to)
                           /\ Calls([op |-> "rename", from |-> p, to |-> to, ok |-> TRUE])
                           /\ resolve(p) \notin DOMAIN fs' /\ resolve(to) \in DOMAIN fs'
                           /\ Len(tasks') = Len(tasks) =>
                                 Task(to, t.root, "open", 0, NoPath) \in Pending(tasks')
                        \/ /\ o.kind = "ErrorRename" /\ o.modified = to
                           /\ o.error \notin {"", "dry-run"}
                           /\ Calls([op |-> "rename", from |-> p, to |-> to, ok |-> FALSE])
                           /\ fs' = fs
                           /\ Len(tasks') = Len(tasks) =>
                                 Task(p, t.root, "open", 0, NoPath) \in Pending(tasks')]_vars

C8_Witness ==
    /\ pc = "done" /\ ~dry_run
    /\ \E r \in Range(results) : r.kind = "Changed"
    /\ \E r \in Range(results) : r.kind = "Unchanged"
    /\ \E k \in DOMAIN results :
          /\ results[k].kind = "ErrorRename"
          /\ \E c \in Range(calls) : c.op = "read_dir" /\ c.from = results[k].path

\* C9: when reading a directory fails, one Error is recorded for it right
\* after its own outcome, no entry of it becomes a task, and every other
\* pending task stays; when a listing ends with an error, one Error is
\* recorded for the directory right after its own outcome and the entries
\* listed before it are visited; no step drops more than the task it runs,
\* while tasks are pending one of them can run, and when the walk is done no
\* task is left and every root has its outcome.
C9_ListErrorIsLocal ==
    /\ [][\A t \in Range(tasks) :
             Calls([op |-> "read_dir", from |-> t.path, to |-> NoPath, ok |-> FALSE]) =>
                /\ \E n \in DOMAIN results :
                      /\ results[n].kind # "Error"
                      /\ t.path = (IF results[n].kind = "Changed"
                                   THEN results[n].modified ELSE results[n].path)
                      /\ results' = SubSeq(results, 1, n)
                                       \o <<Error(t.path, "Error while reading directory")>>
                                       \o SubSeq(results, n + 1, Len(results))
                /\ \E k \in DOMAIN tasks :
                      /\ tasks[k].path = t.path
                      /\ Len(tasks') = Len(tasks) - 1
                      /\ \A j \in DOMAIN tasks' :
                            call_of(tasks'[j]) = call_of(without(tasks, k)[j])]_vars
    /\ [][\A t \in Range(tasks) :
             (t.phase = "read" /\ call_of(t) \notin Pending(tasks')
                 /\ results' # results) =>
                /\ \E q \in opened(fs, t.handle) : fs[q].fault = "entry"
                /\ \E n \in DOMAIN results :
                      /\ results[n].kind # "Error"
                      /\ t.path = (IF results[n].kind = "Changed"
                                   THEN results[n].modified ELSE results[n].path)
                      /\ Len(results') = Len(results) + 1
                      /\ results'[n + 1].kind = "Error"
                      /\ results'[n + 1].path = t.path
                      /\ results'[n + 1].error # "Error while reading directory"
                /\ \A x \in Range(tasks') :
                      call_of(x) \in Pending(tasks) \/ parent(x.path) = t.path]_vars
    /\ [][Cardinality({k \in DOMAIN tasks : call_of(tasks[k]) \notin Pending(tasks')}) <= 1]_vars
    /\ []((pc = "running" /\ tasks # <<>>) =>
             \E k \in Runnable :
                \/ reads_file_type(tasks[k])
                \/ runs_clean_path(tasks[k]) \/ runs_clean_directory(tasks[k])
                \/ reads_entries(tasks[k]) \/ fails_to_read(tasks[k])
                \/ lists_entries(tasks[k]))
    /\ [](pc = "done" =>
             /\ tasks = <<>>
             /\ \A p \in paths_to_check :
                   \E r \in Range(results) : r.kind # "Error" /\ r.path = p)

C9_Witness ==
    /\ pc = "done"
    /\ \E k, n \in DOMAIN results :
          /\ k < n
          /\ results[k] = Error(results[k].path, "Error while reading directory")
          /\ results[n].kind # "Error"
          /\ Len(results[n].path) = Len(results[k].path)
    /\ Cardinality(paths_to_check) > 1

-----------------------------------------------------------------------------
(* Further properties of the sanitizer, checked under SpecName.             *)

\* the literal-class bytes: hyphen, period, digits and letters
LiteralBytes == {45, 46} \cup (48..57) \cup (65..90) \cup (97..122)

IsLiteralName(bytes) ==
    bytes # <<>> /\ \A k \in DOMAIN bytes : bytes[k] \in LiteralBytes

\* a working directory that holds one file, called name
SingleFile(name) ==
    with_inodes((<<>> :> Dir) @@ (<<name>> :> File))

\* C11: a name of literal-class bytes only is copied byte for byte (after
\* every byte the name built so far is the part read so far, and the name
\* returned is the component), and clean_path on a file of that name gives
\* Unchanged with no call of rename and the filesystem as it was, in a dry
\* run or not.
C11_LiteralNameUnchanged ==
    /\ (cn_pc = "loop" /\ i > 1 /\ IsLiteralName(SubSeq(path, 1, i - 1))) =>
           /\ new_name = SubSeq(path, 1, i - 1)
           /\ idx_grapheme = 0
           /\ ~last_was_underscore
    /\ (cn_pc = "returned" /\ IsLiteralName(path)) =>
           /\ new_name = path
           /\ clean_name(path) = path
           /\ \A dry \in BOOLEAN :
                 LET r == clean_path(SingleFile(path), <<path>>, dry)
                 IN  /\ r.change = Unchanged(<<path>>)
                     /\ r.calls = <<>>
                     /\ r.fs = SingleFile(path)

C11_Witness ==
    /\ cn_pc = "returned"
    /\ path = <<90, 46, 55>>
    /\ new_name = <<90, 46, 55>>

-----------------------------------------------------------------------------
(* Properties of the command line, checked under SpecArgs.                  *)

HasDo == \E k \in 2..Len(args) : args[k] \in {"-d", "--do"}

\* the arguments read so far hold "-d" or "--do"
HasDoSoFar == \E k \in 2..(next_arg - 1) : k <= Len(args) /\ args[k] \in {"-d", "--do"}

\* C12: while parse_args runs dry_run is FALSE exactly when "-d" or "--do"
\* is among the arguments read; the NotoxArgs it returns has dry_run = TRUE
\* for every argument list without them, and dry_run = FALSE only for a
\* list that holds one; an invocation without them makes no call of rename
\* and leaves the filesystem as it was.
C12_DryRunByDefault ==
    /\ pc = "parse" => (dry_run <=> ~HasDoSoFar)
    /\ (pc \in {"start", "running", "done"} /\ ~HasDo) => dry_run
    /\ (pc \in {"start", "running", "done"} /\ ~dry_run) => HasDo
    /\ ~HasDo =>
          /\ fs = fs0
          /\ \A c \in Range(calls) : c.op # "rename"
          /\ \A r \in Range(results) : r.kind # "Changed"

C12_Witness ==
    /\ pc = "done" /\ ~HasDo /\ Len(args) = 3
    /\ \E r \in Range(results) : r.kind = "ErrorRename" /\ r.error = "dry-run"

\* "naive_file_test.txt"
ScenarioA_sanitized ==
    <<110, 97, 105, 118, 101, 95, 102, 105, 108, 101, 95, 116, 101, 115, 116,
      46, 116, 120, 116>>

Letters == (65..90) \cup (97..122)

\* a name of literal-class bytes and underscores, no underscore next to
\* another one
IsLiteralOrUnderscoreName(bytes) ==
    /\ bytes # <<>>
    /\ \A k \in DOMAIN bytes : bytes[k] \in LiteralBytes \cup {95}
    /\ \A k \in 1..(Len(bytes) - 1) : ~(bytes[k] = 95 /\ bytes[k + 1] = 95)

\* C13: an underscore byte read at a sequence boundary sets the collapse
\* state and pushes one underscore unless the state was set; a sequence of
\* two bytes that decodes to a scalar of the table pushes the table's ASCII
\* letters for it and clears the collapse state; the component of scenario A
\* gives "naive_file_test.txt"; a component of literal-class bytes and
\* single underscores is returned as it is.
C13_UnderscoreAndTable ==
    /\ [][(Reading /\ idx_grapheme = 0 /\ path[i] = 95) =>
              /\ new_name' = IF last_was_underscore THEN new_name
                             ELSE Append(new_name, 95)
              /\ last_was_underscore' = TRUE]_vars
    /\ [][(Reading /\ Len(CompletedUnit) = 2
               /\ SimilarTable(UnitBits(CompletedUnit)) # <<>>) =>
              /\ new_name' = new_name \o SimilarTable(UnitBits(CompletedUnit))
              /\ \A c \in Range(SimilarTable(UnitBits(CompletedUnit))) : c \in Letters
              /\ last_was_underscore' = FALSE]_vars
    /\ []((cn_pc = "returned" /\ path = ScenarioA_name) =>
              new_name = ScenarioA_sanitized)
    /\ []((cn_pc = "returned" /\ IsLiteralOrUnderscoreName(path)) => new_name = path)

C13_Witness ==
    /\ cn_pc = "returned"
    /\ path = ScenarioA_name
    /\ new_name = ScenarioA_sanitized

\* C14: a decoded combining mark pushes nothing and leaves the collapse
\* state as it was before the mark.
C14_MarkKeepsState ==
    [][(Reading /\ CompletedUnit # <<>> /\ IsScalar(UnitBits(CompletedUnit))
           /\ is_combining_mark(UnitBits(CompletedUnit))) =>
          /\ new_name' = new_name
          /\ last_was_underscore' = last_was_underscore]_vars

\* C18: the loop never aborts: when a byte is stored into vec_grapheme the
\* index is in 0..3; while bytes are pending the first byte of the buffer is
\* 128 or more; and a byte stored brings the index back to 0 exactly when it
\* is the 2nd, 3rd or 4th byte of a sequence whose leading byte is in
\* 128..223, 224..239 or 240..255, and to one more otherwise.
C18_NeverAborts ==
    /\ [](~panicked)
    /\ [](idx_grapheme \in 0..3)
    /\ [](idx_grapheme # 0 => vec_grapheme[1] >= 128)
    /\ [][(Reading /\ ~(idx_grapheme = 0 /\ path[i] < 128)) =>
              LET first == IF idx_grapheme = 0 THEN path[i] ELSE vec_grapheme[1]
                  stored == idx_grapheme + 1
              IN  /\ first >= 128
                  /\ idx_grapheme' = IF stored = UnitLen(first) THEN 0 ELSE stored]_vars
    /\ [][(Reading /\ idx_grapheme = 0 /\ path[i] < 128) => idx_grapheme' = 0]_vars

C18_Witness ==
    /\ cn_pc = "returned"
    /\ path = <<255, 226, 128, 147, 97>>
    /\ new_name = <<97>>

-----------------------------------------------------------------------------
(* Further properties of the walker, checked under Spec.                    *)

\* C15: a rename whose target exists is rejected: it is recorded as
\* ErrorRename and the filesystem stays as it was; so no entry is
\* overwritten or lost, and the filesystem holds as many entries at every
\* point of the walk as before it.
C15_CollisionRejected ==
    /\ [][\A t \in Range(tasks) :
             (~dry_run /\ t.phase \in {"file", "dir"} /\ NeedsRename(t.path)
                 /\ resolve(Sanitized(t.path)) \in DOMAIN fs
                 /\ \E o \in Range(results') : o.path = t.path /\ CleanPathReturns(o)) =>
                /\ \E o \in Range(results') :
                      /\ CleanPathReturns(o)
                      /\ o.kind = "ErrorRename" /\ o.path = t.path
                      /\ o.modified = Sanitized(t.path)
                /\ fs' = fs]_vars
    /\ [](Cardinality(DOMAIN fs) = Cardinality(DOMAIN fs0))

\* C16: no two calls of rename have the same source; no two pending closure
\* calls are on the same path; and the entry of a pending closure call
\* below a root was listed after the rename attempt on its parent directory
\* returned (the parent's outcome is recorded, and the entry's path is
\* below the path the parent's walk went on with).
C16_DisjointRenames ==
    /\ \A k, n \in DOMAIN calls :
          (k # n /\ calls[k].op = "rename" /\ calls[n].op = "rename") =>
             calls[k].from # calls[n].from
    /\ \A k, n \in DOMAIN tasks : k # n => tasks[k].path # tasks[n].path
    /\ \A t \in Range(tasks) :
          (~t.root \/ t.phase \in {"open", "read"}) =>
             \E r \in Range(results) :
                /\ r.kind # "Error"
                /\ (IF t.phase \in {"open", "read"} THEN t.path ELSE parent(t.path))
                      = (IF r.kind = "Changed" THEN r.modified ELSE r.path)

\* every directory of the subtree can be read (the directory, its listing
\* to the end and the file type of its entry), and no two visited entries of
\* one directory sanitize to the same name
ReadableAndCollisionFree ==
    /\ \A p \in Visited :
          is_dir(fs0, p) => fs0[resolve(p)].readable /\ fs0[resolve(p)].fault = "none"
    /\ \A p, q \in Visited :
          (p # q /\ file_name(p).some /\ file_name(q).some
              /\ parent(p) = parent(q)) =>
             clean_name(p[Len(p)]) # clean_name(q[Len(q)])

\* The path under which the walk meets the entry that was at p before the
\* walk, and the path it goes on with below it: a root is met under its own
\* path, an entry under the path its parent's walk goes on with.
RECURSIVE WalkedAs(_), GoesOnAs(_)
WalkedAs(p) ==
    IF p \in paths_to_check THEN p
    ELSE Append(GoesOnAs(parent(p)), p[Len(p)])

GoesOnAs(p) ==
    IF dry_run \/ ~NeedsRename(p) THEN WalkedAs(p)
    ELSE IF p \in paths_to_check /\ rename_error(fs0, p, Sanitized(p)) # ""
    THEN p
    ELSE Sanitized(WalkedAs(p))

\* the one outcome of the entry that was at p before the walk
OutcomeOf(p) ==
    LET w == WalkedAs(p) IN
    IF ~NeedsRename(p) THEN Unchanged(w)
    ELSE IF dry_run THEN ErrorRename(w, Sanitized(w), "dry-run")
    ELSE IF p \in paths_to_check /\ rename_error(fs0, p, Sanitized(p)) # ""
    THEN ErrorRename(w, Sanitized(w), rename_error(fs0, p, Sanitized(p)))
    ELSE Changed(w, Sanitized(w))

\* C17: when every visited directory can be read and no two visited entries
\* of one directory sanitize to the same name, the result of the walk holds
\* one outcome, Unchanged, Changed or ErrorRename, for every root and every
\* entry below one, and nothing else: as many outcomes as entries, no
\* outcome twice, and the outcomes are those fixed by the filesystem, the
\* roots and dry_run, whatever the order of the workers and with or without
\* rayon.
C17_CompleteAggregate ==
    (pc = "done" /\ ReadableAndCollisionFree) =>
        /\ Len(results) = Cardinality(Visited)
        /\ Cardinality(Range(results)) = Len(results)
        /\ \A r \in Range(results) : r.kind \in {"Unchanged", "Changed", "ErrorRename"}
        /\ Range(results) = {OutcomeOf(p) : p \in Visited}

C17_Witness ==
    /\ pc = "done" /\ rayon /\ ~dry_run /\ ReadableAndCollisionFree
    /\ Len(results) = 4
    /\ \E r, d \in Range(results) :
          r.kind = "Changed" /\ d.path # r.modified /\ is_prefix(r.modified, d.path)
    /\ \E k, n \in DOMAIN results :
          k < n /\ Len(results[k].path) > Len(results[n].path)

====
